---------------------------- MODULE Spec2Model ----------------------------
(***************************************************************************)
(* Alert-capture pipelines of the human_detection repository:              *)
(*   detect.py              (stored video file, frame-based throttle)      *)
(*   detect_rtsp_camera.py  (RTSP stream, time-based throttle, reconnect)  *)
(*   detect_webcam.py       (local camera, time-based throttle, reopen)    *)
(* Each script is one sequential loop; pc is its position in the script.   *)
(* Confidences are in hundredths (0.45 -> 45), the frame rate in           *)
(* hundredths of a frame per second (29.97 -> 2997), time in seconds.      *)
(***************************************************************************)
EXTENDS Integers, Sequences, FiniteSets, TLC

(* ---------------- settings blocks of the three scripts ---------------- *)
CONF_THRESHOLD == 45
WEBCAM_CONF_THRESHOLD == 35
SAVE_INTERVAL_SEC == 5
RECONNECT_DELAY == 5
WEBCAM_RETRY_DELAY == 2
PERSON == 0

(* ---------------------------- model bounds ---------------------------- *)
MaxTime == 10
MaxFrames == 4
MaxLiveFrames == 3
MaxStampLag == 1
MaxScenarioFrames == 30

VARIABLES
  kind,             \* which script runs: "file", "rtsp" or "webcam"
  pc,               \* position of the script
  now,              \* wall clock, what time.time() returns
  cap,              \* the capture handle: "none", "open", "unopened", "released"
  video,            \* file only: what the detector sees on each frame of the file
  fps100,           \* file only: cap.get(CAP_PROP_FPS), in hundredths
  save_interval_sec,\* the SAVE_INTERVAL_SEC setting of the run
  interval_frames,  \* file only
  alert_id,
  frame_count,
  last_save_time,   \* rtsp, webcam
  last_save_frame,  \* file
  has_person,
  dets,             \* candidates the detector has for the frame being processed
  present,          \* presence verdict the loop acted on for that frame
  cancel_req,       \* the operator has pressed Q
  fired,            \* log of fired alerts, in firing order
  artifacts,        \* ids of the alert images that reached the disk
  report,           \* total printed at termination, -1 while none is printed
  opens,            \* number of cv2.VideoCapture(...) calls made so far
  track_open,       \* file only: model.track has the file open to read frames
  retry_from        \* live only: clock reading at the last open attempt or failed read

vars == << kind, pc, now, cap, video, fps100, save_interval_sec, interval_frames,
           alert_id, frame_count, last_save_time, last_save_frame, has_person,
           dets, present, cancel_req, fired, artifacts, report, opens,
           track_open, retry_from >>

(* ------------------------- detector results --------------------------- *)
Det(c, p) == [cls |-> c, conf |-> p]

\* representative detector outputs for one frame: nothing, a person or another
\* object (class 2) above, at and below the thresholds, and mixtures
Scenes ==
  { {}, {Det(0, 80)}, {Det(2, 80)}, {Det(0, 45)}, {Det(0, 35)}, {Det(0, 30)},
    {Det(0, 80), Det(2, 80)}, {Det(0, 30), Det(2, 80)} }

\* model(frame, conf=c) / model.track(conf=c): what the detector hands to the
\* script holds no detection below the confidence it was called with
DetectorResults(c) == {s \in Scenes : \A d \in s : d.conf >= c}

\* the detector raised instead of returning boxes for the frame
DetectorError == {Det(-1, 0)}

\* any(c == 0 for c in cls)
AnyPerson(bs) == \E b \in bs : b.cls = PERSON

\* [b for b in boxes if int(b.cls[0]) == 0 and b.conf[0] > CONF_THRESHOLD]
WebcamPersons(bs) == {b \in bs : b.cls = PERSON /\ b.conf > WEBCAM_CONF_THRESHOLD}

(* ------------------------------ throttle ------------------------------ *)
\* int(fps * SAVE_INTERVAL_SEC): truncation of a non-negative product
IntervalFrames(f100, sec) == (f100 * sec) \div 100

\* variant: strict comparison
FrameDue_Strict(fc, last, n) == fc - last > n

\* frame_count - last_save_frame >= interval_frames
FrameDue(fc, last, n) == fc - last >= n

\* variant: the window closes one second early
TimeDue_OneShort(t, last, sec) == t - last >= sec - 1

\* time.time() - last_save_time >= SAVE_INTERVAL_SEC
TimeDue(t, last, sec) == t - last >= sec

Min(a, b) == IF a <= b THEN a ELSE b

AllVideos(scenes, n) == UNION { [1..k -> scenes] : k \in 0..n }

FpsChoices == {0, 36, 40, 59}

TypeOK ==
  /\ kind \in {"file", "rtsp", "webcam"}
  /\ pc \in {"start", "loop", "connect", "backoff", "decide", "write", "show", "exit", "done",
            "crashed"}
  /\ now \in 0..MaxTime
  /\ cap \in {"none", "open", "unopened", "released"}
  /\ alert_id \in Nat /\ frame_count \in Nat
  /\ has_person \in BOOLEAN /\ present \in BOOLEAN /\ cancel_req \in BOOLEAN
  /\ report \in Nat \cup {-1}
  /\ track_open \in BOOLEAN
  /\ retry_from \in 0..MaxTime

(* ------------------------------- Init --------------------------------- *)
Blank ==
  /\ pc = "start" /\ now = 0 /\ cap = "none"
  /\ interval_frames = 0 /\ alert_id = 0 /\ frame_count = 0
  /\ last_save_time = 0 /\ last_save_frame = 0
  /\ has_person = FALSE /\ dets = {} /\ present = FALSE
  /\ cancel_req = FALSE /\ fired = << >> /\ artifacts = {} /\ report = -1 /\ opens = 0
  /\ track_open = FALSE /\ retry_from = 0

Init ==
  /\ Blank
  /\ save_interval_sec = SAVE_INTERVAL_SEC
  /\ \/ /\ kind = "file"
        /\ fps100 \in FpsChoices
        /\ video \in AllVideos(DetectorResults(CONF_THRESHOLD) \cup {DetectorError}, MaxFrames)
     \/ /\ kind \in {"rtsp", "webcam"}
        /\ fps100 = 0
        /\ video = << >>

(* ========================= detect.py (file) =========================== *)
FileStart ==
  /\ kind = "file" /\ pc = "start"
  /\ cap' = "open"
  /\ interval_frames' = IntervalFrames(fps100, save_interval_sec)
  /\ alert_id' = 0
  /\ frame_count' = 0
  /\ last_save_frame' = - IntervalFrames(fps100, save_interval_sec)
  /\ pc' = "loop"
  /\ opens' = opens + 1
  /\ UNCHANGED << kind, now, video, fps100, save_interval_sec, last_save_time,
                  has_person, dets, present, cancel_req, fired, artifacts, report, track_open, retry_from >>

FileFrame ==
  /\ kind = "file" /\ pc = "loop"
  /\ frame_count < Len(video)
  /\ video[frame_count + 1] # DetectorError
  /\ frame_count' = frame_count + 1
  /\ dets' = video[frame_count + 1]
  /\ LET bs == video[frame_count + 1] IN
       IF bs = {}
       THEN \* no boxes: report and continue
            /\ present' = FALSE
            /\ pc' = "loop"
            /\ UNCHANGED << has_person, alert_id, last_save_frame, fired >>
       ELSE /\ has_person' = AnyPerson(bs)
            /\ present' = AnyPerson(bs)
            /\ IF AnyPerson(bs) /\ FrameDue(frame_count + 1, last_save_frame, interval_frames)
               THEN /\ alert_id' = alert_id + 1
                    /\ last_save_frame' = frame_count + 1
                    /\ fired' = Append(fired, [id |-> alert_id + 1, at |-> frame_count + 1])
                    /\ pc' = "write"
               ELSE /\ pc' = "loop"
                    /\ UNCHANGED << alert_id, last_save_frame, fired >>
  /\ track_open' = TRUE
  /\ UNCHANGED << kind, now, cap, video, fps100, save_interval_sec, interval_frames,
                  last_save_time, cancel_req, artifacts, report, opens, retry_from >>

\* model.track raises while producing the next result: nothing catches it,
\* the script dies with the traceback (no release, no total)
FileDetectorFail ==
  /\ kind = "file" /\ pc = "loop"
  /\ frame_count < Len(video)
  /\ video[frame_count + 1] = DetectorError
  /\ dets' = DetectorError
  /\ pc' = "crashed"
  /\ track_open' = TRUE
  /\ UNCHANGED << kind, now, cap, video, fps100, save_interval_sec, interval_frames,
                  alert_id, frame_count, last_save_time, last_save_frame, has_person,
                  present, cancel_req, fired, artifacts, report, opens, retry_from >>

FileWrite ==
  /\ kind = "file" /\ pc = "write"
  /\ \E ok \in BOOLEAN :
       artifacts' = IF ok THEN artifacts \cup {alert_id} ELSE artifacts
  /\ pc' = "loop"
  /\ UNCHANGED << kind, now, cap, video, fps100, save_interval_sec, interval_frames,
                  alert_id, frame_count, last_save_time, last_save_frame, has_person,
                  dets, present, cancel_req, fired, report, opens, track_open, retry_from >>

\* variant: the loop stops one frame before the end of the file
FileEnd_SkipsLast ==
  /\ kind = "file" /\ pc = "loop"
  /\ frame_count + 1 >= Len(video)
  /\ cap' = "released"
  /\ report' = alert_id
  /\ pc' = "done"
  /\ track_open' = FALSE
  /\ UNCHANGED << kind, now, video, fps100, save_interval_sec, interval_frames,
                  alert_id, frame_count, last_save_time, last_save_frame, has_person,
                  dets, present, cancel_req, fired, artifacts, opens, retry_from >>

\* model.track is exhausted: cap.release(), print the total
FileEnd ==
  /\ kind = "file" /\ pc = "loop"
  /\ frame_count = Len(video)
  /\ cap' = "released"
  /\ report' = alert_id
  /\ pc' = "done"
  /\ track_open' = FALSE
  /\ UNCHANGED << kind, now, video, fps100, save_interval_sec, interval_frames,
                  alert_id, frame_count, last_save_time, last_save_frame, has_person,
                  dets, present, cancel_req, fired, artifacts, opens, retry_from >>

NextFile == FileStart \/ FileFrame \/ FileDetectorFail \/ FileWrite \/ FileEnd

(* ==================== detect_rtsp_camera.py (RTSP) ==================== *)
\* connect_rtsp(url): the capture when it opened, None otherwise
ConnectRtsp == {"open", "none"}

\* variant: the script gives up when the first connection fails
RtspStart_ExitOnFail ==
  /\ kind = "rtsp" /\ pc = "start"
  /\ cap' \in ConnectRtsp
  /\ alert_id' = 0
  /\ frame_count' = 0
  /\ last_save_time' = now - save_interval_sec
  /\ pc' = IF cap' = "none" THEN "exit" ELSE "loop"
  /\ opens' = opens + 1
  /\ retry_from' = now
  /\ UNCHANGED << kind, now, video, fps100, save_interval_sec, interval_frames,
                  last_save_frame, has_person, dets, present, cancel_req, fired,
                  artifacts, report, track_open >>

RtspStart ==
  /\ kind = "rtsp" /\ pc = "start"
  /\ cap' \in ConnectRtsp
  /\ alert_id' = 0
  /\ frame_count' = 0
  /\ last_save_time' = now - save_interval_sec
  /\ pc' = "loop"
  /\ opens' = opens + 1
  /\ retry_from' = now
  /\ UNCHANGED << kind, now, video, fps100, save_interval_sec, interval_frames,
                  last_save_frame, has_person, dets, present, cancel_req, fired,
                  artifacts, report, track_open >>

\* variant: the throttle is armed again while waiting to reconnect
RtspSleep_ResetMarker ==
  /\ kind = "rtsp" /\ pc = "loop" /\ cap = "none"
  /\ now + RECONNECT_DELAY <= MaxTime
  /\ now' = now + RECONNECT_DELAY
  /\ pc' = "connect"
  /\ last_save_time' = now + RECONNECT_DELAY - save_interval_sec
  /\ UNCHANGED << kind, cap, video, fps100, save_interval_sec, interval_frames,
                  alert_id, frame_count, last_save_frame, has_person,
                  dets, present, cancel_req, fired, artifacts, report, opens, track_open, retry_from >>

\* cap is None: time.sleep(RECONNECT_DELAY)
RtspSleep ==
  /\ kind = "rtsp" /\ pc = "loop" /\ cap = "none"
  /\ now + RECONNECT_DELAY <= MaxTime
  /\ now' = now + RECONNECT_DELAY
  /\ pc' = "connect"
  /\ UNCHANGED << kind, cap, video, fps100, save_interval_sec, interval_frames,
                  alert_id, frame_count, last_save_time, last_save_frame, has_person,
                  dets, present, cancel_req, fired, artifacts, report, opens, track_open, retry_from >>

\* variant: the counters are initialised again on every reconnection
RtspConnect_ResetIds ==
  /\ kind = "rtsp" /\ pc = "connect"
  /\ cap' \in ConnectRtsp
  /\ opens' = opens + 1
  /\ alert_id' = 0
  /\ pc' = "loop"
  /\ retry_from' = now
  /\ UNCHANGED << kind, now, video, fps100, save_interval_sec, interval_frames,
                  frame_count, last_save_time, last_save_frame, has_person,
                  dets, present, cancel_req, fired, artifacts, report, track_open >>

\* cap = connect_rtsp(RTSP_URL); continue
RtspConnect ==
  /\ kind = "rtsp" /\ pc = "connect"
  /\ cap' \in ConnectRtsp
  /\ pc' = "loop"
  /\ opens' = opens + 1
  /\ retry_from' = now
  /\ UNCHANGED << kind, now, video, fps100, save_interval_sec, interval_frames,
                  alert_id, frame_count, last_save_time, last_save_frame, has_person,
                  dets, present, cancel_req, fired, artifacts, report, track_open >>

\* variant: a failed read ends the run, as the end of a file does
RtspReadFail_Fatal ==
  /\ kind = "rtsp" /\ pc = "loop" /\ cap = "open"
  /\ cap' = "none"
  /\ pc' = "exit"
  /\ retry_from' = now
  /\ UNCHANGED << kind, now, video, fps100, save_interval_sec, interval_frames,
                  alert_id, frame_count, last_save_time, last_save_frame, has_person,
                  dets, present, cancel_req, fired, artifacts, report, opens, track_open >>

\* ret is False: cap.release(); cap = None; continue
RtspReadFail ==
  /\ kind = "rtsp" /\ pc = "loop" /\ cap = "open"
  /\ cap' = "none"
  /\ pc' = "loop"
  /\ retry_from' = now
  /\ UNCHANGED << kind, now, video, fps100, save_interval_sec, interval_frames,
                  alert_id, frame_count, last_save_time, last_save_frame, has_person,
                  dets, present, cancel_req, fired, artifacts, report, opens, track_open >>

\* variant: has_person is not recomputed per frame but kept once set
RtspReadFrame_StickyFlag ==
  /\ kind = "rtsp" /\ pc = "loop" /\ cap = "open"
  /\ frame_count < MaxLiveFrames
  /\ frame_count' = frame_count + 1
  /\ \E bs \in DetectorResults(CONF_THRESHOLD) :
       /\ dets' = bs
       /\ has_person' = (has_person \/ (bs # {} /\ AnyPerson(bs)))
       /\ present' = (bs # {} /\ AnyPerson(bs))
       /\ pc' = IF has_person \/ (bs # {} /\ AnyPerson(bs)) THEN "decide" ELSE "show"
  /\ UNCHANGED << kind, now, cap, video, fps100, save_interval_sec, interval_frames,
                  alert_id, last_save_time, last_save_frame, cancel_req, fired,
                  artifacts, report, opens, track_open, retry_from >>

\* ret is True: count the frame, run the detector, evaluate presence
RtspReadFrame ==
  /\ kind = "rtsp" /\ pc = "loop" /\ cap = "open"
  /\ frame_count < MaxLiveFrames
  /\ frame_count' = frame_count + 1
  /\ \E bs \in DetectorResults(CONF_THRESHOLD) :
       /\ dets' = bs
       /\ has_person' = (bs # {} /\ AnyPerson(bs))
       /\ present' = (bs # {} /\ AnyPerson(bs))
       /\ pc' = IF bs # {} /\ AnyPerson(bs) THEN "decide" ELSE "show"
  /\ UNCHANGED << kind, now, cap, video, fps100, save_interval_sec, interval_frames,
                  alert_id, last_save_time, last_save_frame, cancel_req, fired,
                  artifacts, report, opens, track_open, retry_from >>

\* ret is True but model(frame, ...) raises: nothing catches it, the script
\* dies with the traceback (no release, no total)
RtspDetectorFail ==
  /\ kind = "rtsp" /\ pc = "loop" /\ cap = "open"
  /\ frame_count < MaxLiveFrames
  /\ frame_count' = frame_count + 1
  /\ dets' = DetectorError
  /\ pc' = "crashed"
  /\ UNCHANGED << kind, now, cap, video, fps100, save_interval_sec, interval_frames,
                  alert_id, last_save_time, last_save_frame, has_person, present,
                  cancel_req, fired, artifacts, report, opens, track_open, retry_from >>

\* variant: the marker is left for after the image is written
RtspDecide_NoStamp ==
  /\ kind = "rtsp" /\ pc = "decide"
  /\ IF TimeDue(now, last_save_time, save_interval_sec)
     THEN /\ alert_id' = alert_id + 1
          /\ fired' = Append(fired, [id |-> alert_id + 1, at |-> now])
          /\ pc' = "write"
     ELSE /\ pc' = "show"
          /\ UNCHANGED << alert_id, fired >>
  /\ UNCHANGED << kind, now, cap, video, fps100, save_interval_sec, interval_frames,
                  frame_count, last_save_time, last_save_frame, has_person, dets,
                  present, cancel_req, artifacts, report, opens, track_open, retry_from >>

\* has_person: the interval check reads the clock, the marker reads it again
RtspDecide ==
  /\ kind = "rtsp" /\ pc = "decide"
  /\ IF TimeDue(now, last_save_time, save_interval_sec)
     THEN /\ alert_id' = alert_id + 1
          /\ \E t2 \in now..Min(now + MaxStampLag, MaxTime) :
               /\ last_save_time' = t2
               /\ now' = t2
          /\ fired' = Append(fired, [id |-> alert_id + 1, at |-> now])
          /\ pc' = "write"
     ELSE /\ pc' = "show"
          /\ UNCHANGED << alert_id, last_save_time, now, fired >>
  /\ UNCHANGED << kind, cap, video, fps100, save_interval_sec, interval_frames,
                  frame_count, last_save_frame, has_person, dets, present, cancel_req,
                  artifacts, report, opens, track_open, retry_from >>

\* cv2.imwrite(save_path, frame): returns False when the image is not written
RtspWrite ==
  /\ kind = "rtsp" /\ pc = "write"
  /\ \E ok \in BOOLEAN :
       artifacts' = IF ok THEN artifacts \cup {alert_id} ELSE artifacts
  /\ pc' = "show"
  /\ UNCHANGED << kind, now, cap, video, fps100, save_interval_sec, interval_frames,
                  alert_id, frame_count, last_save_time, last_save_frame, has_person,
                  dets, present, cancel_req, fired, report, opens, track_open, retry_from >>

\* variant: the index is advanced once more at the end of the iteration
RtspPoll_CountsIteration ==
  /\ kind = "rtsp" /\ pc = "show"
  /\ frame_count' = frame_count + 1
  /\ pc' = IF cancel_req THEN "exit" ELSE "loop"
  /\ UNCHANGED << kind, now, cap, video, fps100, save_interval_sec, interval_frames,
                  alert_id, last_save_time, last_save_frame, has_person,
                  dets, present, cancel_req, fired, artifacts, report, opens, track_open, retry_from >>

\* cv2.imshow; if cv2.waitKey(1) & 0xFF == ord('q'): break
RtspPoll ==
  /\ kind = "rtsp" /\ pc = "show"
  /\ pc' = IF cancel_req THEN "exit" ELSE "loop"
  /\ UNCHANGED << kind, now, cap, video, fps100, save_interval_sec, interval_frames,
                  alert_id, frame_count, last_save_time, last_save_frame, has_person,
                  dets, present, cancel_req, fired, artifacts, report, opens, track_open, retry_from >>

\* cap.release(); destroyAllWindows; print the total
RtspExit ==
  /\ kind = "rtsp" /\ pc = "exit"
  /\ cap' = "released"
  /\ report' = alert_id
  /\ pc' = "done"
  /\ UNCHANGED << kind, now, video, fps100, save_interval_sec, interval_frames,
                  alert_id, frame_count, last_save_time, last_save_frame, has_person,
                  dets, present, cancel_req, fired, artifacts, opens, track_open, retry_from >>

NextRtsp ==
  \/ RtspStart \/ RtspSleep \/ RtspConnect \/ RtspReadFail \/ RtspReadFrame
  \/ RtspDetectorFail
  \/ RtspDecide \/ RtspWrite \/ RtspPoll \/ RtspExit

(* ====================== detect_webcam.py (webcam) ===================== *)
\* cv2.VideoCapture(VIDEO_SOURCE): always an object, opened or not
OpenWebcam == {"open", "unopened"}

WebcamStart ==
  /\ kind = "webcam" /\ pc = "start"
  /\ alert_id' = 0
  /\ last_save_time' = now
  /\ cap' \in OpenWebcam
  /\ pc' = "loop"
  /\ opens' = opens + 1
  /\ retry_from' = now
  /\ UNCHANGED << kind, now, video, fps100, save_interval_sec, interval_frames,
                  frame_count, last_save_frame, has_person, dets, present, cancel_req,
                  fired, artifacts, report, track_open >>

\* ret is False (always so on a capture that did not open): cap.release()
WebcamReadFail ==
  /\ kind = "webcam" /\ pc = "loop"
  /\ cap \in OpenWebcam
  /\ cap' = "released"
  /\ pc' = "backoff"
  /\ retry_from' = now
  /\ UNCHANGED << kind, now, video, fps100, save_interval_sec, interval_frames,
                  alert_id, frame_count, last_save_time, last_save_frame, has_person,
                  dets, present, cancel_req, fired, artifacts, report, opens, track_open >>

\* variant: the camera is reopened at once, without the sleep
WebcamBackoff_NoSleep ==
  /\ kind = "webcam" /\ pc = "backoff"
  /\ now' = now
  /\ cap' \in OpenWebcam
  /\ pc' = "loop"
  /\ opens' = opens + 1
  /\ retry_from' = now
  /\ UNCHANGED << kind, video, fps100, save_interval_sec, interval_frames,
                  alert_id, frame_count, last_save_time, last_save_frame, has_person,
                  dets, present, cancel_req, fired, artifacts, report, track_open >>

\* time.sleep(2); cap = cv2.VideoCapture(VIDEO_SOURCE); continue
WebcamBackoff ==
  /\ kind = "webcam" /\ pc = "backoff"
  /\ now + WEBCAM_RETRY_DELAY <= MaxTime
  /\ now' = now + WEBCAM_RETRY_DELAY
  /\ cap' \in OpenWebcam
  /\ pc' = "loop"
  /\ opens' = opens + 1
  /\ retry_from' = now + WEBCAM_RETRY_DELAY
  /\ UNCHANGED << kind, video, fps100, save_interval_sec, interval_frames,
                  alert_id, frame_count, last_save_time, last_save_frame, has_person,
                  dets, present, cancel_req, fired, artifacts, report, track_open >>

\* ret is True: run the detector (called without conf, so low confidences
\* come back too), keep the persons above CONF_THRESHOLD
WebcamReadFrame ==
  /\ kind = "webcam" /\ pc = "loop" /\ cap = "open"
  /\ \E ds \in Scenes :
       /\ dets' = ds
       /\ has_person' = (Cardinality(WebcamPersons(ds)) > 0)
       /\ present' = (Cardinality(WebcamPersons(ds)) > 0)
       /\ pc' = IF Cardinality(WebcamPersons(ds)) > 0 THEN "decide" ELSE "show"
  /\ UNCHANGED << kind, now, cap, video, fps100, save_interval_sec, interval_frames,
                  alert_id, frame_count, last_save_time, last_save_frame, cancel_req,
                  fired, artifacts, report, opens, track_open, retry_from >>

\* ret is True but model(frame, ...) raises: the script dies with the traceback
WebcamDetectorFail ==
  /\ kind = "webcam" /\ pc = "loop" /\ cap = "open"
  /\ dets' = DetectorError
  /\ pc' = "crashed"
  /\ UNCHANGED << kind, now, cap, video, fps100, save_interval_sec, interval_frames,
                  alert_id, frame_count, last_save_time, last_save_frame, has_person,
                  present, cancel_req, fired, artifacts, report, opens, track_open, retry_from >>

\* current_time = time.time(); the check and the marker use the same reading
WebcamDecide ==
  /\ kind = "webcam" /\ pc = "decide"
  /\ IF TimeDue(now, last_save_time, save_interval_sec)
     THEN /\ alert_id' = alert_id + 1
          /\ last_save_time' = now
          /\ fired' = Append(fired, [id |-> alert_id + 1, at |-> now])
          /\ pc' = "write"
     ELSE /\ pc' = "show"
          /\ UNCHANGED << alert_id, last_save_time, fired >>
  /\ UNCHANGED << kind, now, cap, video, fps100, save_interval_sec, interval_frames,
                  frame_count, last_save_frame, has_person, dets, present, cancel_req,
                  artifacts, report, opens, track_open, retry_from >>

WebcamWrite ==
  /\ kind = "webcam" /\ pc = "write"
  /\ \E ok \in BOOLEAN :
       artifacts' = IF ok THEN artifacts \cup {alert_id} ELSE artifacts
  /\ pc' = "show"
  /\ UNCHANGED << kind, now, cap, video, fps100, save_interval_sec, interval_frames,
                  alert_id, frame_count, last_save_time, last_save_frame, has_person,
                  dets, present, cancel_req, fired, report, opens, track_open, retry_from >>

\* cv2.imshow; if cv2.waitKey(1) & 0xFF == ord("q"): print, break
WebcamPoll ==
  /\ kind = "webcam" /\ pc = "show"
  /\ pc' = IF cancel_req THEN "exit" ELSE "loop"
  /\ UNCHANGED << kind, now, cap, video, fps100, save_interval_sec, interval_frames,
                  alert_id, frame_count, last_save_time, last_save_frame, has_person,
                  dets, present, cancel_req, fired, artifacts, report, opens, track_open, retry_from >>

\* cap.release(); destroyAllWindows: nothing about the alerts is printed
WebcamExit ==
  /\ kind = "webcam" /\ pc = "exit"
  /\ cap' = "released"
  /\ pc' = "done"
  /\ UNCHANGED << kind, now, video, fps100, save_interval_sec, interval_frames,
                  alert_id, frame_count, last_save_time, last_save_frame, has_person,
                  dets, present, cancel_req, fired, artifacts, report, opens, track_open, retry_from >>

NextWebcam ==
  \/ WebcamStart \/ WebcamReadFail \/ WebcamBackoff \/ WebcamReadFrame
  \/ WebcamDetectorFail
  \/ WebcamDecide \/ WebcamWrite \/ WebcamPoll \/ WebcamExit

(* ============================ environment ============================= *)
\* the wall clock advances while a live script runs
Tick ==
  /\ kind \in {"rtsp", "webcam"} /\ pc \notin {"done", "crashed"}
  /\ now < MaxTime
  /\ now' = now + 1
  /\ UNCHANGED << kind, pc, cap, video, fps100, save_interval_sec, interval_frames,
                  alert_id, frame_count, last_save_time, last_save_frame, has_person,
                  dets, present, cancel_req, fired, artifacts, report, opens, track_open, retry_from >>

\* the operator presses Q in the display window
RequestCancel ==
  /\ kind \in {"rtsp", "webcam"} /\ pc \notin {"done", "crashed"}
  /\ ~cancel_req
  /\ cancel_req' = TRUE
  /\ UNCHANGED << kind, pc, now, cap, video, fps100, save_interval_sec, interval_frames,
                  alert_id, frame_count, last_save_time, last_save_frame, has_person,
                  dets, present, fired, artifacts, report, opens, track_open, retry_from >>

Next == NextFile \/ NextRtsp \/ NextWebcam \/ Tick \/ RequestCancel

Spec == Init /\ [][Next]_vars

(* ------------- the worked scenario of the file pipeline -------------- *)
\* a file of n frames with a person on frames a..b and from frame c on
ScenarioVideo(n, a, b, c) ==
  [i \in 1..n |-> IF (a <= i /\ i <= b) \/ i >= c THEN {Det(PERSON, 80)} ELSE {}]

\* lengths of the gap before the person comes back
ScenarioGaps == {2, 7, 12}

ScenarioInit ==
  /\ Blank
  /\ kind = "file"
  /\ fps100 = 1000
  /\ save_interval_sec \in {1, 2}
  /\ video \in { ScenarioVideo(MaxScenarioFrames, a, b, c) :
                    <<a, b, c>> \in { t \in (1..MaxScenarioFrames)
                                          \X (0..MaxScenarioFrames)
                                          \X (2..MaxScenarioFrames + 1) :
                                       /\ t[1] <= t[2] + 1
                                       /\ \/ t[3] = MaxScenarioFrames + 1
                                          \/ t[3] - t[2] \in ScenarioGaps } }

\* the scenario's detector returns a result for every frame of the file
NextScenario == FileStart \/ FileFrame \/ FileWrite \/ FileEnd

SpecScenario == ScenarioInit /\ [][NextScenario]_vars

(* ============================== claims ================================ *)
Live == kind \in {"rtsp", "webcam"}

\* C1: in every pipeline the alerts fired so far carry the ids 1..k in firing
\* order, and the id counter equals k: it starts at 0, grows by one per fired
\* alert and no id is skipped or used twice.
C1_IdsAreOneToK ==
  /\ alert_id = Len(fired)
  /\ \A i \in 1..Len(fired) : fired[i].id = i

\* three alerts on the RTSP stream with a reconnection in between
C1_Witness == kind = "rtsp" /\ opens >= 2 /\ Len(fired) = 3

\* C2: in every pipeline, once the loop has decided on a frame whose presence
\* verdict is true, an alert has fired (so the first such frame fired one).
C2_FirstPresenceFires ==
  (pc # "start" /\ pc # "decide" /\ present) => Len(fired) >= 1

\* C3: on a live source two consecutive fired alerts are at least
\* save_interval_sec seconds of wall clock apart.
C3_ThrottleLowerBound ==
  Live => \A i \in 2..Len(fired) : fired[i].at - fired[i - 1].at >= save_interval_sec

\* two alerts on the RTSP stream, the second after a reconnection
C3_Witness == kind = "rtsp" /\ opens >= 2 /\ Len(fired) = 2 /\ pc = "write"


\* round(fps * interval), halves rounded up
RoundFrames(f100, sec) == (2 * f100 * sec + 100) \div 200

\* C4: on a file two consecutive fired alerts are at least round(fps x
\* interval) frames apart.
C4_RoundedFrameWindow ==
  kind = "file" =>
    \A i \in 2..Len(fired) :
      fired[i].at - fired[i - 1].at >= RoundFrames(fps100, save_interval_sec)

Terminated == pc \in {"exit", "done", "crashed"}
Connecting == ~Terminated /\ cap # "open"
Streaming == ~Terminated /\ cap = "open"

\* C5: on a live source a failed open or read never ends the run: the step
\* leaves the driver connecting; the run ends only at the key poll or on a
\* frame that was read (the detector raising on it); a successful open leaves
\* it streaming, and frames are read only then.
C5_FailuresNeverTerminate ==
  [][ Live =>
        /\ (pc = "loop" /\ cap' # cap) => (Connecting' /\ report' = -1)
        /\ (pc \in {"start", "connect", "backoff"} /\ cap' # "open") => Connecting'
        /\ (pc \in {"start", "connect", "backoff"} /\ cap' = "open") => Streaming'
        /\ (~Terminated /\ Terminated') =>
              \/ pc = "show" /\ cancel_req
              \/ pc = "loop" /\ cap = "open" /\ dets' = DetectorError
        /\ (pc = "loop" /\ pc' \in {"decide", "show"}) => (Streaming /\ Streaming')
    ]_vars

\* a frame is processed on the RTSP stream after two failed opens
C5_Witness ==
  kind = "rtsp" /\ opens >= 3 /\ frame_count >= 1 /\ pc = "show" /\ cap = "open"

\* C6: on a live source a loop iteration entered while cancellation is pending
\* takes the path that polls the key (it reads a frame, and unless the
\* detector raises on it, reaches the poll).
C6_CancelPolledEachIteration ==
  [][ (Live /\ cancel_req /\ pc = "loop" /\ (pc' # "loop" \/ cap' # cap))
        => pc' \in {"decide", "show", "crashed"} ]_vars

NothingDetected == \A i \in 1..Len(video) : video[i] = {}

\* C7: a file of N frames with no detection on any frame ends after N frames
\* read, with no alert, a printed total of 0, and its single capture
\* released and never opened again; until then the run never reads past
\* frame N and always has a next step.
C7_GracefulFinish ==
  (kind = "file" /\ NothingDetected) =>
     /\ frame_count <= Len(video)
     /\ pc # "done" => ENABLED NextFile
     /\ pc = "done" =>
          /\ frame_count = Len(video)
          /\ alert_id = 0 /\ fired = << >> /\ artifacts = {}
          /\ report = 0
          /\ opens = 1 /\ cap = "released"

C7_Witness ==
  kind = "file" /\ pc = "done" /\ NothingDetected /\ Len(video) >= 3 /\ report = 0

FiredFrames == [i \in 1..Len(fired) |-> fired[i].at]

\* the frames that fire by the rule of the claim: the first frame with presence,
\* then each first frame with presence at least n frames after the last firing
RECURSIVE ExpectedFires(_, _, _, _)
ExpectedFires(v, n, i, last) ==
  IF i > Len(v) THEN << >>
  ELSE IF v[i] /\ (last = 0 \/ i - last >= n)
       THEN << i >> \o ExpectedFires(v, n, i + 1, i)
       ELSE ExpectedFires(v, n, i + 1, last)

PresenceSoFar == [i \in 1..frame_count |-> AnyPerson(video[i])]

\* C8: on a file the firing frames are exactly those of the rule above; with
\* 10 fps, 30 frames, a person on frames 5..30 and a 1 s interval they are
\* 5, 15, 25 with ids 1..3 and a printed total of 3.
C8_ExactFiringFrames ==
  (kind = "file" /\ pc # "start") =>
     /\ FiredFrames = ExpectedFires(PresenceSoFar, interval_frames, 1, 0)
     /\ ( /\ pc = "done" /\ fps100 = 1000 /\ save_interval_sec = 1
          /\ video = ScenarioVideo(30, 5, 30, 31) )
        => /\ fired = << [id |-> 1, at |-> 5], [id |-> 2, at |-> 15], [id |-> 3, at |-> 25] >>
           /\ report = 3

C8_Witness ==
  /\ pc = "done" /\ fps100 = 1000 /\ save_interval_sec = 1
  /\ video = ScenarioVideo(30, 5, 30, 31)
  /\ FiredFrames = << 5, 15, 25 >>

\* C9: in every pipeline a terminated run has printed a total equal to the
\* number of alerts fired.
C9_ReportEqualsAlerts ==
  pc = "done" => report = Len(fired)

MinConfidence == IF kind = "webcam" THEN WEBCAM_CONF_THRESHOLD ELSE CONF_THRESHOLD

\* C10: the presence verdict of a frame is true exactly when one of its
\* detections is a person with confidence at or above the minimum confidence.
C10_PresenceIffMatch ==
  pc # "start" =>
    (present <=> \E d \in dets : d.cls = PERSON /\ d.conf >= MinConfidence)

\* C11: when the detector fails on a frame, the frame counts as presence
\* false, no alert fires, id counter and throttle markers keep their values,
\* and the loop goes on to the next read; the pipeline does not terminate.
C11_DetectorFailureSkipsFrame ==
  [][ (dets' = DetectorError /\ pc = "loop") =>
        /\ ~Terminated'
        /\ pc' \in {"loop", "show"}
        /\ present' = FALSE
        /\ UNCHANGED << alert_id, last_save_time, last_save_frame, fired >> ]_vars

\* C12: outside the write itself, the images on disk are exactly those of
\* the ids consumed so far (a failed write consumes no id).
C12_ArtifactPerConsumedId ==
  pc # "write" => artifacts = 1..alert_id

LastFired == fired[Len(fired)]

\* C13: when the image write begins the throttle marker already stands at the
\* instant of the firing (frame index, or a clock reading between the fire
\* decision and now), and the write, successful or not and however long it
\* takes, changes neither the marker nor the id counter.
C13_MarkerResetBeforeWrite ==
  /\ [](pc = "write" =>
          /\ Len(fired) >= 1 /\ LastFired.id = alert_id
          /\ IF kind = "file"
             THEN last_save_frame = frame_count /\ LastFired.at = frame_count
             ELSE LastFired.at <= last_save_time /\ last_save_time <= now)
  /\ [][pc = "write" =>
          UNCHANGED << alert_id, last_save_time, last_save_frame, fired >>]_vars

\* a slow write on the RTSP stream: the clock has moved on since the marker
C13_Witness ==
  kind = "rtsp" /\ pc = "write" /\ Len(fired) = 2 /\ now > last_save_time + 1

\* handles on the source that are open at this moment (none once the process
\* has died)
OpenSessions ==
  IF pc = "crashed" THEN 0
  ELSE (IF cap = "open" THEN 1 ELSE 0) + (IF track_open THEN 1 ELSE 0)

\* C14: a pipeline never holds more than one open session on its source.
C14_SingleSession == OpenSessions <= 1

BackoffDelay == IF kind = "rtsp" THEN RECONNECT_DELAY ELSE WEBCAM_RETRY_DELAY

\* C15: on a live source every open attempt after the first is made with no
\* session held and at least one full backoff delay after the previous open
\* attempt or failed read; and however many attempts were made, the next
\* retry step is there to be taken (no cap on the number of retries).
C15_BackoffBeforeEveryRetry ==
  /\ [][(Live /\ opens >= 1 /\ opens' = opens + 1) =>
          /\ cap \in {"none", "released"}
          /\ now' - retry_from >= BackoffDelay]_vars
  /\ []((kind = "rtsp" /\ pc = "loop" /\ cap = "none" /\ now + RECONNECT_DELAY <= MaxTime)
          => ENABLED RtspSleep)
  /\ []((kind = "rtsp" /\ pc = "connect") => ENABLED RtspConnect)
  /\ []((kind = "webcam" /\ pc = "loop" /\ cap = "unopened") => ENABLED WebcamReadFail)
  /\ []((kind = "webcam" /\ pc = "backoff" /\ now + WEBCAM_RETRY_DELAY <= MaxTime)
          => ENABLED WebcamBackoff)

\* the camera is being read after three reopenings
C15_Witness == kind = "webcam" /\ opens >= 4 /\ pc = "show" /\ cap = "open"

\* the step on which a frame's fire decision is taken: on a file the step
\* that consumes the frame, on a live source the step that leaves "decide"
DecisionStep ==
  IF kind = "file"
  THEN pc = "loop" /\ frame_count' = frame_count + 1
  ELSE pc = "decide" /\ pc' # "decide"

\* distance from the throttle marker at the decision
DueAtDecision ==
  IF kind = "file"
  THEN frame_count' - last_save_frame >= interval_frames
  ELSE now - last_save_time >= save_interval_sec

\* C16: an alert fires on a frame exactly when the frame's presence verdict
\* is true and the distance from the throttle marker is at least the
\* interval; every other step after start-up, a presence-false frame with
\* the interval long elapsed included, leaves id counter and markers alone.
C16_NoQueuedFire ==
  /\ []((Live /\ pc = "decide") => present)
  /\ [][pc # "start" =>
          IF DecisionStep /\ present' /\ DueAtDecision
          THEN /\ alert_id' = alert_id + 1
               /\ Len(fired') = Len(fired) + 1
               /\ fired'[Len(fired')].id = alert_id'
          ELSE UNCHANGED << alert_id, last_save_time, last_save_frame, fired >>]_vars

\* a presence-false frame read after one alert, a full interval after it
C16_Witness ==
  /\ kind = "rtsp" /\ pc = "show" /\ ~present /\ frame_count >= 2
  /\ Len(fired) = 1 /\ now - last_save_time >= save_interval_sec

\* a step of the recovery path: a read failure, a backoff sleep, an open
\* attempt (failed or successful)
RecoveryStep ==
  /\ Live /\ pc # "start"
  /\ \/ pc \in {"connect", "backoff"}
     \/ pc' \in {"connect", "backoff"}
     \/ cap' # cap
     \/ opens' # opens

\* the source was opened again after the last alert fired
ReconnectedSinceLastAlert == Len(fired) >= 1 /\ retry_from > LastFired.at

\* C17: on a live source no step of the recovery path changes the id counter
\* or the throttle marker; an alert that fires after a reconnection takes the
\* id following the last one fired before it, and fires no sooner than one
\* full interval after that alert.
C17_ReconnectKeepsThrottle ==
  /\ [][RecoveryStep => UNCHANGED << alert_id, last_save_time, fired >>]_vars
  /\ [][(Live /\ Len(fired') = Len(fired) + 1 /\ ReconnectedSinceLastAlert) =>
          /\ alert_id' = LastFired.id + 1
          /\ now - LastFired.at >= save_interval_sec]_vars

\* the camera fired once, was lost and reopened, and has just fired again
C17_Witness ==
  /\ kind = "webcam" /\ pc = "write" /\ Len(fired) = 2 /\ opens >= 2
  /\ fired[1].at < retry_from /\ retry_from <= fired[2].at

\* C18: in the RTSP script the final release is reached only from the key
\* poll that follows a successfully read frame, with the quit key pressed,
\* so the release is always applied to a connected capture; a run that dies
\* in the detector never executes the release.
C18_FinalReleaseOnOpenSession ==
  /\ []((kind = "rtsp" /\ pc = "exit") => cap = "open")
  /\ [][(kind = "rtsp" /\ pc # "exit" /\ pc' = "exit") =>
          pc = "show" /\ cancel_req /\ cap = "open" /\ frame_count >= 1]_vars
  /\ [][(kind = "rtsp" /\ cap' = "released") => (pc = "exit" /\ cap = "open")]_vars
  /\ [][(kind = "rtsp" /\ pc' = "crashed") => cap' = cap]_vars

\* the stream was lost and reconnected, then the quit key ended the run
C18_Witness ==
  kind = "rtsp" /\ pc = "done" /\ cap = "released" /\ opens >= 3 /\ cancel_req

\* C19: in the file and RTSP scripts the frame index moves only on the step
\* that obtains a frame, and then by exactly one; failed reads, sleeps and
\* reconnections leave it alone; on a file it is the position of the last
\* result consumed; the alerts fired never outnumber the frames read.
C19_FrameIndexCountsReads ==
  /\ [](kind \in {"file", "rtsp"} => alert_id <= frame_count)
  /\ []((kind = "file" /\ frame_count >= 1 /\ pc # "crashed") =>
          frame_count <= Len(video) /\ dets = video[frame_count])
  /\ [][(kind \in {"file", "rtsp"} /\ frame_count' # frame_count) =>
          /\ frame_count' = frame_count + 1
          /\ pc = "loop"
          /\ (kind = "rtsp" => cap = "open" /\ cap' = "open")]_vars
  /\ [][(kind = "rtsp" /\ pc = "loop" /\ cap = "open" /\ cap' = "open" /\ pc' # "loop") =>
          frame_count' = frame_count + 1]_vars
  /\ [][(kind = "rtsp" /\ (pc = "connect" \/ pc' = "connect" \/ cap' # cap \/ opens' # opens)
           /\ pc # "start") => frame_count' = frame_count]_vars

\* two frames read on the stream, one before and one after a reconnection,
\* each of them fired an alert
C19_Witness ==
  kind = "rtsp" /\ frame_count = 2 /\ alert_id = 2 /\ opens >= 2 /\ pc = "show"

====
